---- MODULE Spec2Model ----
(***************************************************************************)
(* The application editor of application-tracker-fe (ApplicationForm):    *)
(* its reactive form, the load of an application for editing, the user's   *)
(* inputs, onSubmit and the RxJS save chains (switchMap, forkJoin) with    *)
(* the responses of the remote store.                                      *)
(***************************************************************************)
EXTENDS Integers, Sequences, FiniteSets, TLC

VARIABLES
  inited,                 \* ngOnInit has run
  isEditMode,             \* ApplicationForm.isEditMode
  currentApplicationId,   \* ApplicationForm.currentApplicationId
  currentContactId,       \* ApplicationForm.currentContactId
  form,                   \* ApplicationForm.applicationForm (values and validators)
  loads,                  \* the getApplicationById requests made, oldest first
  subs,                   \* the submissions started by onSubmit, oldest first
  store,                  \* what the remote store holds of contacts and their links
  navigations,            \* the router.navigate calls made, oldest first
  touched,                \* markAllAsTouched has run on the form
  nOps,                   \* number of user operations so far (inputs, submissions, further loads)
  budget,                 \* the session's limits: operations of the user, submissions started
  notesTrace,             \* the fetch that last filled the notes, and the operations on them since
  api,                    \* Api: the authToken entry of localStorage and the loggedIn subject
  app,                    \* App, the root component: its subscription, companies and getCompanies requests
  guard,                  \* the last verdict of authGuard
  http,                   \* the last request that went through authInterceptor
  company,                \* CompanyFormComponent: its form and its submissions
  list                    \* ApplicationList: the loaded applications, their grouping and the due count

\* The application editor's variables.
editor == << inited, isEditMode, currentApplicationId, currentContactId, form,
             loads, subs, store, navigations, touched, nOps, budget, notesTrace >>

\* The variables of the rest of the application.
outside == << api, app, guard, http, company, list >>

vars == << inited, isEditMode, currentApplicationId, currentContactId, form,
           loads, subs, store, navigations, touched, nOps, budget, notesTrace,
           api, app, guard, http, company, list >>

-----------------------------------------------------------------------------
(* Bounds of the model.                                                    *)

\* The number of operations of the user in one session: inputs into the form,
\* submissions started, further loads.
MaxOps == 3

\* The number of submissions started in one session.
MaxSubmits == 1

-----------------------------------------------------------------------------
(* Values.  null is modelled per type: NullId for a number | null,         *)
(* NullStr for a string | null.                                            *)

NullId == -1
NullStr == "<null>"

\* JavaScript truthiness of a number | null and of a string | null.
TruthyNum(x) == x # NullId /\ x # 0
TruthyStr(s) == s # NullStr /\ s # ""

\* x || null
OrNullNum(x) == IF TruthyNum(x) THEN x ELSE NullId
OrNullStr(s) == IF TruthyStr(s) THEN s ELSE NullStr

ApplicationStatus == {"DRAFT", "APPLIED", "INTERVIEW", "OFFER", "REJECTED", "WITHDRAWN"}

DateFields == {"applied_on", "interview_on", "offer_on", "rejected_on", "follow_up_on"}

\* application.contact === null
NoContact ==
  [id |-> NullId, first_name |-> "", last_name |-> "", email |-> "",
   phone |-> "", position |-> ""]

-----------------------------------------------------------------------------
(* The remote store's applications, as getApplicationById returns them.    *)

AppIds == {1, 2}

\* Application 3 is opened by the sessions about the contact's details only.
StoredIds == AppIds \cup {3}

StoreApplications ==
  [i \in StoredIds |->
     IF i = 1
     THEN [id |-> 1, job_title |-> "Engineer", salary_expectation |-> 0,
           job_posting_link |-> "https://jobs.example/1",
           status |-> "APPLIED", applied_on |-> "2025-01-10",
           interview_on |-> NullStr, offer_on |-> NullStr,
           rejected_on |-> NullStr, follow_up_on |-> NullStr,
           company |-> [id |-> 3, name |-> "Acme", industry |-> "Tech",
                        website |-> NullStr],
           contact |-> [id |-> 9, first_name |-> "Ada", last_name |-> "Lovelace",
                        email |-> "", phone |-> "555", position |-> ""],
           notes |-> << [id |-> 11, text |-> "called"], [id |-> 12, text |-> "mailed"] >>]
     ELSE IF i = 3
     THEN [id |-> 3, job_title |-> "Designer", salary_expectation |-> 40000,
           job_posting_link |-> NullStr,
           status |-> "DRAFT", applied_on |-> NullStr,
           interview_on |-> NullStr, offer_on |-> NullStr,
           rejected_on |-> NullStr, follow_up_on |-> NullStr,
           company |-> [id |-> 5, name |-> "Cedar", industry |-> "Print",
                        website |-> NullStr],
           contact |-> [id |-> 7, first_name |-> "Alan", last_name |-> "Turing",
                        email |-> "", phone |-> "111", position |-> ""],
           notes |-> << >>]
     ELSE [id |-> 2, job_title |-> "Analyst", salary_expectation |-> 50000,
           job_posting_link |-> NullStr,
           status |-> "DRAFT", applied_on |-> NullStr,
           interview_on |-> NullStr, offer_on |-> NullStr,
           rejected_on |-> NullStr, follow_up_on |-> NullStr,
           company |-> [id |-> 4, name |-> "Birch", industry |-> "Bank",
                        website |-> "birch.example"],
           contact |-> NoContact,
           notes |-> << >>]]

\* The id the store assigns to the next created contact.
FirstNewContactId == 20

-----------------------------------------------------------------------------
(* The reactive form.                                                      *)

\* A subscriber that also asks for the follow-up date of a draft.
RequiredDatesWithFollowUp(status) ==
  {f \in {"applied_on", "interview_on", "offer_on", "rejected_on", "follow_up_on"} :
     \/ f = "applied_on" /\ status = "APPLIED"
     \/ f = "interview_on" /\ status = "INTERVIEW"
     \/ f = "offer_on" /\ status = "OFFER"
     \/ f = "rejected_on" /\ status = "REJECTED"
     \/ f = "follow_up_on" /\ status = "DRAFT"}

\* Validators.required on the date the status implies, as the valueChanges
\* subscriber of the status control sets them.
RequiredDates(status) ==
  {f \in {"applied_on", "interview_on", "offer_on", "rejected_on"} :
     \/ f = "applied_on" /\ status = "APPLIED"
     \/ f = "interview_on" /\ status = "INTERVIEW"
     \/ f = "offer_on" /\ status = "OFFER"
     \/ f = "rejected_on" /\ status = "REJECTED"}

\* createForm: the form group with its initial values; notes and details
\* exist in edit mode only, and company_id is disabled there.
createForm(editMode) ==
  [job_title |-> "", salary_expectation |-> NullId, company_id |-> NullId,
   status |-> "DRAFT", applied_on |-> NullStr, interview_on |-> NullStr,
   offer_on |-> NullStr, rejected_on |-> NullStr, follow_up_on |-> NullStr,
   hasDetails |-> editMode, companyIdDisabled |-> editMode,
   notes |-> << >>,
   company |-> [name |-> "", industry |-> "", website |-> ""],
   contact |-> NoContact,
   required |-> {}]

\* A subscriber that sets validators without clearing the earlier ones.
setupConditionalValidationSticky(f) ==
  [f EXCEPT !.required = @ \cup RequiredDates(f.status)]

\* setupConditionalValidation: the subscriber runs once at set-up and on every
\* change of the status control.
setupConditionalValidation(f) == [f EXCEPT !.required = RequiredDates(f.status)]

\* Validators.required: null, undefined and the empty string are empty.
IsEmptyStr(s) == s = NullStr \/ s = ""

\* A validator that misses a last name given without a first name.
contactRequiredValidatorFirstOnly(c) ==
  TruthyStr(c.first_name) /\ ~TruthyStr(c.last_name)

\* A validator that asks for both names whenever one is missing.
contactRequiredValidatorBoth(c) ==
  ~(TruthyStr(c.first_name) /\ TruthyStr(c.last_name))

\* contactRequiredValidator: exactly one of the two names is filled.
contactRequiredValidator(c) ==
  \/ TruthyStr(c.first_name) /\ ~TruthyStr(c.last_name)
  \/ ~TruthyStr(c.first_name) /\ TruthyStr(c.last_name)

\* Validators.email accepts the empty value.
EmailValid(e) == IsEmptyStr(e) \/ e # "not-an-email"

\* applicationForm.invalid: some enabled control fails a validator.
FormInvalid(f) ==
  \/ IsEmptyStr(f.job_title)
  \/ ~f.companyIdDisabled /\ f.company_id = NullId
  \/ IsEmptyStr(f.status)
  \/ \E d \in f.required : IsEmptyStr(f[d])
  \/ f.hasDetails /\ \/ IsEmptyStr(f.company.name)
                     \/ IsEmptyStr(f.company.industry)
                     \/ contactRequiredValidator(f.contact)
                     \/ ~EmailValid(f.contact.email)
                     \/ \E i \in 1..Len(f.notes) :
                          f.notes[i].required /\ IsEmptyStr(f.notes[i].text)

-----------------------------------------------------------------------------
(* The rest of the application as constructed.                             *)

\* Api.hasToken: !!localStorage.getItem('authToken').
hasToken(token) == TruthyStr(token)

\* Api constructed over a localStorage whose authToken entry is token
\* (NullStr: no entry): loggedIn = new BehaviorSubject(hasToken()).  last and
\* n record the last of saveToken / logout called and the number of calls made
\* on the shell.
ApiConstructed(token) ==
  [token |-> token, loggedIn |-> hasToken(token), last |-> "none", n |-> 0]

\* App before ngOnInit: companies = [], no subscription, no request made.
AppConstructed ==
  [phase |-> "constructed", companies |-> << >>, requests |-> << >>]

\* No route activation was asked for yet.
GuardIdle == [asked |-> FALSE, allowed |-> FALSE, redirect |-> "", token |-> NullStr]

\* No request was made yet.  A URL is the sequence of its characters; the
\* Authorization header of a request is NoHeader when the request has none.
NoHeader == << >>

HttpIdle ==
  [sent |-> FALSE, token |-> NullStr,
   request |-> [url |-> << >>, authorization |-> NoHeader],
   forwarded |-> [url |-> << >>, authorization |-> NoHeader]]

\* CompanyFormComponent as constructed: every control empty.
CompanyConstructed ==
  [form |-> [name |-> "", industry |-> "", website |-> "", first_name |-> "",
             last_name |-> "", email |-> "", position |-> "", phone |-> ""],
   touched |-> FALSE, subs |-> << >>, navigations |-> << >>,
   nextCompanyId |-> 30, n |-> 0]

\* ApplicationList as constructed: groupedApplications = {}, the object
\* without keys.  tz is the offset of the browser's local time from UTC in
\* hours, positive east of Greenwich.
ListConstructed(tz) ==
  [phase |-> "constructed", isLoading |-> TRUE, errorMessage |-> NullStr,
   allApplications |-> << >>, groupedApplications |-> << >>,
   dueFollowUpsCount |-> 0, tz |-> tz]

OutsideIdle ==
  /\ api = ApiConstructed(NullStr)
  /\ app = AppConstructed
  /\ guard = GuardIdle
  /\ http = HttpIdle
  /\ company = CompanyConstructed
  /\ list = ListConstructed(0)

-----------------------------------------------------------------------------
InitEditor(b) ==
  /\ inited = FALSE
  /\ isEditMode = FALSE
  /\ currentApplicationId = NullId
  /\ currentContactId = NullId
  /\ form = createForm(FALSE)
  /\ loads = << >>
  /\ subs = << >>
  /\ store = [contacts |-> {StoreApplications[i].contact.id : i \in StoredIds} \ {NullId},
              link |-> [i \in StoredIds |-> StoreApplications[i].contact.id],
              nextContactId |-> FirstNewContactId]
  /\ navigations = << >>
  /\ touched = FALSE
  /\ nOps = 0
  /\ budget = b
  /\ notesTrace = << >>

\* The editor as constructed, the rest of the application idle.
InitState(b) == InitEditor(b) /\ OutsideIdle

Init == InitState([ops |-> MaxOps, subs |-> MaxSubmits])

-----------------------------------------------------------------------------
(* Loading an application for editing.                                     *)

\* FormGroup.patchValue(application) on the top-level group: the controls
\* named by a key of the response take its value; setting the status control
\* runs the valueChanges subscriber.
patchApplication(f, a) ==
  setupConditionalValidation(
    [f EXCEPT !.job_title = a.job_title,
              !.salary_expectation = a.salary_expectation,
              !.status = a.status,
              !.applied_on = a.applied_on,
              !.interview_on = a.interview_on,
              !.offer_on = a.offer_on,
              !.rejected_on = a.rejected_on,
              !.follow_up_on = a.follow_up_on])

\* notes.clear() and one fb.group({id, text}) per loaded note, in order.
loadedNotes(a) ==
  [i \in 1..Len(a.notes) |->
     [id |-> a.notes[i].id, text |-> a.notes[i].text, required |-> FALSE]]

\* A next callback that pushes the loaded notes without clearing the array.
populateFormAppending(f, a) ==
  LET p == patchApplication(f, a) IN
  [p EXCEPT !.company_id = a.company.id,
            !.company = [name |-> a.company.name, industry |-> a.company.industry,
                         website |-> a.company.website],
            !.notes = @ \o loadedNotes(a),
            !.contact = IF a.contact.id # NullId THEN a.contact ELSE @]

\* The next callback of loadApplicationForEdit, steps 1 to 3 and the contact
\* sub-section of step 4.
populateForm(f, a) ==
  LET p == patchApplication(f, a) IN
  [p EXCEPT !.company_id = a.company.id,
            !.company = [name |-> a.company.name, industry |-> a.company.industry,
                         website |-> a.company.website],
            !.notes = loadedNotes(a),
            !.contact = IF a.contact.id # NullId THEN a.contact ELSE @]

\* loadApplicationForEdit(id), up to the subscription.  The request records
\* whether an earlier fetch was still in flight when it was made.
loadApplicationForEdit(id) ==
  /\ currentContactId' = NullId
  /\ loads' = Append(loads, [id |-> id, status |-> "pending",
                             overlapped |-> \E j \in 1..Len(loads) :
                                              loads[j].status = "pending"])

\* An ngOnInit that takes the mode from the route but keeps no id.
NgOnInitWithoutId(id) ==
  /\ ~inited
  /\ inited' = TRUE
  /\ isEditMode' = (id # NullId)
  /\ form' = setupConditionalValidation(createForm(id # NullId))
  /\ IF id # NullId
     THEN /\ loadApplicationForEdit(id)
          /\ UNCHANGED currentApplicationId
     ELSE UNCHANGED << currentApplicationId, currentContactId, loads >>
  /\ UNCHANGED << subs, store, navigations, touched, nOps, budget, notesTrace, outside >>

\* ngOnInit with the route's id parameter (NullId: no id, create mode).  The
\* companies list it also fetches feeds the selection only and is left out.
NgOnInit(id) ==
  /\ ~inited
  /\ inited' = TRUE
  /\ isEditMode' = (id # NullId)
  /\ form' = setupConditionalValidation(createForm(id # NullId))
  /\ IF id # NullId
     THEN /\ currentApplicationId' = id
          /\ loadApplicationForEdit(id)
     ELSE UNCHANGED << currentApplicationId, currentContactId, loads >>
  /\ UNCHANGED << subs, store, navigations, touched, nOps, budget, notesTrace, outside >>

\* A further call of the public method loadApplicationForEdit on the editor.
LoadApplicationForEdit(id) ==
  /\ inited /\ isEditMode /\ navigations = << >> /\ nOps < budget.ops
  /\ subs = << >>
  /\ loadApplicationForEdit(id)
  /\ nOps' = nOps + 1
  /\ UNCHANGED << inited, isEditMode, currentApplicationId, form, subs, store,
                  navigations, touched, budget, notesTrace, outside >>

\* The fetch of request k succeeds: the next callback.
LoadNext(k) ==
  /\ loads[k].status = "pending"
  /\ LET a == StoreApplications[loads[k].id] IN
       /\ form' = populateForm(form, a)
       /\ currentContactId' = IF a.contact.id # NullId THEN a.contact.id
                              ELSE currentContactId
  /\ loads' = [loads EXCEPT ![k].status = "loaded"]
  /\ notesTrace' = << [op |-> "load", index |-> loads[k].id, text |-> ""] >>
  /\ UNCHANGED << inited, isEditMode, currentApplicationId, subs, store,
                  navigations, touched, nOps, budget, outside >>

\* An error handler that navigates to the list whatever the context.
onSaveErrorNavigating(context) == Append(navigations, "load-error")

\* onSaveError(error, context): a notification, and a navigation to the list
\* for the load context only.
onSaveError(context) ==
  IF context = "load" THEN Append(navigations, "load-error") ELSE navigations

\* The fetch of request k fails: the error callback.
LoadError(k) ==
  /\ loads[k].status = "pending"
  /\ loads' = [loads EXCEPT ![k].status = "failed"]
  /\ navigations' = onSaveError("load")
  /\ UNCHANGED << inited, isEditMode, currentApplicationId, currentContactId,
                  form, subs, store, touched, nOps, budget, notesTrace, outside >>

-----------------------------------------------------------------------------
(* The user's inputs into the form's controls.                             *)

CanEdit == inited /\ navigations = << >> /\ nOps < budget.ops

EditedForm(f) ==
  /\ form' = f
  /\ nOps' = nOps + 1
  /\ UNCHANGED << inited, isEditMode, currentApplicationId, currentContactId,
                  loads, subs, store, navigations, touched, budget, outside >>

\* An input outside the notes.
Edited(f) == EditedForm(f) /\ UNCHANGED notesTrace

\* An operation on the notes, recorded with its position and text.
EditedNotes(f, op, i, v) ==
  /\ EditedForm(f)
  /\ notesTrace' = Append(notesTrace, [op |-> op, index |-> i, text |-> v])

SetJobTitle(v) ==
  /\ CanEdit /\ v # form.job_title
  /\ Edited([form EXCEPT !.job_title = v])

SetStatus(v) ==
  /\ CanEdit /\ v # form.status
  /\ Edited(setupConditionalValidation([form EXCEPT !.status = v]))

SetDate(d, v) ==
  /\ CanEdit /\ v # form[d]
  /\ Edited([form EXCEPT ![d] = v])

SetCompanyId(v) ==
  /\ CanEdit /\ ~form.companyIdDisabled /\ v # form.company_id
  /\ Edited([form EXCEPT !.company_id = v])

SetContactField(c, v) ==
  /\ CanEdit /\ form.hasDetails /\ v # form.contact[c]
  /\ Edited([form EXCEPT !.contact[c] = v])

SetCompanyField(c, v) ==
  /\ CanEdit /\ form.hasDetails /\ v # form.company[c]
  /\ Edited([form EXCEPT !.company[c] = v])

\* onAddNote: a new group {id: null, text: ''} with Validators.required.
onAddNote(f) ==
  [f EXCEPT !.notes = Append(@, [id |-> NullId, text |-> "", required |-> TRUE])]

\* A removal of the last element whatever the index.
removeLast(s, i) == SubSeq(s, 1, Len(s) - 1)

\* FormArray.removeAt(index), index counted from 1 here.
removeAt(s, i) == [j \in 1..(Len(s) - 1) |-> IF j < i THEN s[j] ELSE s[j + 1]]

onDeleteNote(f, i) == [f EXCEPT !.notes = removeAt(@, i)]

OnAddNote ==
  /\ CanEdit /\ form.hasDetails
  /\ EditedNotes(onAddNote(form), "add", 0, "")

OnDeleteNote(i) ==
  /\ CanEdit /\ form.hasDetails /\ i \in 1..Len(form.notes)
  /\ EditedNotes(onDeleteNote(form, i), "delete", i, "")

SetNoteText(i, v) ==
  /\ CanEdit /\ form.hasDetails /\ i \in 1..Len(form.notes)
  /\ v # form.notes[i].text
  /\ EditedNotes([form EXCEPT !.notes[i].text = v], "text", i, v)

-----------------------------------------------------------------------------
(* The payload builders.                                                   *)

\* formValue.notes: the raw value of the notes array, {id, text} per note.
rawNotes(f) == [i \in 1..Len(f.notes) |-> [id |-> f.notes[i].id, text |-> f.notes[i].text]]

\* buildCreateContactPayload: the names and the company id always, each of
\* email, position, phone only when truthy.
buildCreateContactPayload(formValue, contactData) ==
  [k \in {"first_name", "last_name", "company_id"}
         \cup {o \in {"email", "position", "phone"} : TruthyStr(contactData[o])} |->
     IF k = "company_id" THEN formValue.company_id ELSE contactData[k]]

\* A payload of all five fields, empty ones included.
buildUpdateContactPayloadAll(contactData) ==
  [k \in {"first_name", "last_name", "email", "position", "phone"} |-> contactData[k]]

\* A payload that keeps the id among the truthy entries.
buildUpdateContactPayloadWithId(contactData) ==
  [k \in {"id"} \cup {o \in {"first_name", "last_name", "email", "position", "phone"} :
                        TruthyStr(contactData[o])} |-> contactData[k]]

\* buildUpdateContactPayload: the contact's fields without id, truthy ones only.
buildUpdateContactPayload(contactData) ==
  [k \in {o \in {"first_name", "last_name", "email", "position", "phone"} :
            TruthyStr(contactData[o])} |-> contactData[k]]

\* buildApplicationPayload (edit mode).
buildApplicationPayload(formValue, contactId) ==
  [job_title |-> formValue.job_title,
   salary_expectation |-> OrNullNum(formValue.salary_expectation),
   company_id |-> formValue.company_id,
   contact_id |-> contactId,
   status |-> formValue.status,
   notes |-> rawNotes(formValue),
   applied_on |-> OrNullStr(formValue.applied_on),
   interview_on |-> OrNullStr(formValue.interview_on),
   offer_on |-> OrNullStr(formValue.offer_on),
   rejected_on |-> OrNullStr(formValue.rejected_on),
   follow_up_on |-> OrNullStr(formValue.follow_up_on)]

\* A create payload that carries the notes like the edit-mode payload.
buildCreatePayloadWithNotes(formValue) ==
  [buildApplicationPayload(formValue, NullId) EXCEPT !.contact_id = NullId]

\* The payload onSubmit builds in create mode: no notes, contact_id null.
buildCreatePayload(formValue) ==
  [job_title |-> formValue.job_title,
   salary_expectation |-> OrNullNum(formValue.salary_expectation),
   company_id |-> formValue.company_id,
   status |-> formValue.status,
   applied_on |-> OrNullStr(formValue.applied_on),
   interview_on |-> OrNullStr(formValue.interview_on),
   offer_on |-> OrNullStr(formValue.offer_on),
   rejected_on |-> OrNullStr(formValue.rejected_on),
   follow_up_on |-> OrNullStr(formValue.follow_up_on),
   contact_id |-> NullId]

\* buildCompanyPayload.
buildCompanyPayload(formValue) ==
  [name |-> formValue.company.name,
   industry |-> formValue.company.industry,
   website |-> OrNullStr(formValue.company.website)]

-----------------------------------------------------------------------------
(* The remote calls of a submission.                                       *)

\* A call of the Api service, issued when its observable is subscribed.
Call(kind, id, payload) ==
  [kind |-> kind, id |-> id, payload |-> payload, status |-> "pending",
   result |-> NullId]

EmptyPayload == [none |-> TRUE]

\* contactFormHasData: both names truthy.
contactFormHasData(contactData) ==
  TruthyStr(contactData.first_name) /\ TruthyStr(contactData.last_name)

\* shouldCreateContact.
shouldCreateContact(contactId, contactData) ==
  ~TruthyNum(contactId) /\ contactFormHasData(contactData)

\* All three calls subscribed at once, the application update carrying the
\* contact id known before the call.
handleCreateContactAndUpdatesForkJoin(formValue, contactData) ==
  << Call("createContact", NullId, buildCreateContactPayload(formValue, contactData)),
     Call("updateApplication", currentApplicationId,
          buildApplicationPayload(formValue, currentContactId)),
     Call("updateCompany", formValue.company_id, buildCompanyPayload(formValue)) >>

\* handleCreateContactAndUpdates, up to the subscription: only createContact
\* is subscribed; the rest waits in switchMap.
handleCreateContactAndUpdates(formValue, contactData) ==
  << Call("createContact", NullId, buildCreateContactPayload(formValue, contactData)) >>

\* The contact call with the test of contactFormHasData inverted.
contactOperationInverted(contactId, contactData) ==
  IF TruthyNum(contactId)
  THEN IF contactFormHasData(contactData)
       THEN << Call("deleteContact", contactId, EmptyPayload) >>
       ELSE << Call("updateContact", contactId,
                    buildUpdateContactPayload(contactData)) >>
  ELSE << >>

\* The contact call handleUpdates pushes, if any.
contactOperation(contactId, contactData) ==
  IF TruthyNum(contactId)
  THEN IF ~contactFormHasData(contactData)
       THEN << Call("deleteContact", contactId, EmptyPayload) >>
       ELSE IF DOMAIN buildUpdateContactPayload(contactData) # {}
            THEN << Call("updateContact", contactId,
                         buildUpdateContactPayload(contactData)) >>
            ELSE << >>
  ELSE << >>

\* The contact id left as it was when the contact is deleted.
contactIdForApplicationKept(contactId, contactData) == contactId

\* contactIdForApplication of handleUpdates.
contactIdForApplication(contactId, contactData) ==
  IF TruthyNum(contactId) /\ ~contactFormHasData(contactData)
  THEN NullId
  ELSE contactId

\* The two calls forkJoin always subscribes: the application and the company.
applicationAndCompany(appId, formValue, contactId) ==
  << Call("updateApplication", appId, buildApplicationPayload(formValue, contactId)),
     Call("updateCompany", formValue.company_id, buildCompanyPayload(formValue)) >>

\* The contact call alone, the two updates left for later.
handleUpdatesContactFirst(appId, contactId, formValue, contactData) ==
  IF contactOperation(contactId, contactData) # << >>
  THEN contactOperation(contactId, contactData)
  ELSE applicationAndCompany(appId, formValue,
                             contactIdForApplication(contactId, contactData))

\* A resolution that leaves the contact alone once a submission was started.
handleUpdatesOnce(appId, contactId, formValue, contactData) ==
  (IF subs = << >> THEN contactOperation(contactId, contactData) ELSE << >>)
    \o applicationAndCompany(appId, formValue,
                             contactIdForApplication(contactId, contactData))

\* handleUpdates: forkJoin subscribes every observable at once.
handleUpdates(appId, contactId, formValue, contactData) ==
  contactOperation(contactId, contactData)
    \o applicationAndCompany(appId, formValue,
                             contactIdForApplication(contactId, contactData))

\* The submission onSubmit starts from a valid form.
startSubmission ==
  IF isEditMode
  THEN [context |-> "update", formValue |-> form, callbacks |-> << >>,
        error |-> "", originalContactId |-> currentContactId,
        notesTrace |-> notesTrace,
        phase |-> IF shouldCreateContact(currentContactId, form.contact)
                  THEN "contact" ELSE "fork",
        calls |-> IF shouldCreateContact(currentContactId, form.contact)
                  THEN handleCreateContactAndUpdates(form, form.contact)
                  ELSE handleUpdates(currentApplicationId, currentContactId,
                                     form, form.contact)]
  ELSE [context |-> "create", formValue |-> form, callbacks |-> << >>,
        error |-> "", originalContactId |-> currentContactId,
        notesTrace |-> notesTrace, phase |-> "fork",
        calls |-> << Call("createApplication", NullId, buildCreatePayload(form)) >>]

\* onSubmit.
OnSubmit ==
  /\ inited /\ navigations = << >>
  /\ IF FormInvalid(form)
     THEN /\ touched' = TRUE
          /\ UNCHANGED << subs, nOps >>
     ELSE /\ nOps < budget.ops /\ Len(subs) < budget.subs
          /\ ~(isEditMode /\ currentApplicationId = NullId)
          /\ subs' = Append(subs, startSubmission)
          /\ nOps' = nOps + 1
          /\ UNCHANGED touched
  /\ UNCHANGED << inited, isEditMode, currentApplicationId, currentContactId,
                  form, loads, store, navigations, budget, notesTrace, outside >>

-----------------------------------------------------------------------------
(* The responses of the remote store and the RxJS chains reacting to them. *)

\* What a successful call changes in the store: a created contact gets the
\* next id, a deleted contact is unlinked from every application, an updated
\* application references the contact_id of its payload.  A failed or
\* unsubscribed call is taken to change nothing.
storeAfter(st, c) ==
  CASE c.kind = "createContact" ->
         [st EXCEPT !.contacts = @ \cup {st.nextContactId},
                    !.nextContactId = @ + 1]
    [] c.kind = "deleteContact" ->
         [st EXCEPT !.contacts = @ \ {c.id},
                    !.link = [i \in StoredIds |-> IF @[i] = c.id THEN NullId ELSE @[i]]]
    [] c.kind = "updateApplication" /\ c.id \in StoredIds ->
         [st EXCEPT !.link[c.id] = c.payload.contact_id]
    [] OTHER -> st

\* onSaveSuccess, and the next callback of createApplication: a notification
\* and a navigation to the list.
onSaveSuccess == Append(navigations, "saved")

\* An emission as soon as one source has emitted.
AnyOk(calls) == \E i \in 1..Len(calls) : calls[i].status = "ok"

\* forkJoin emits once every source has emitted and completed.
AllOk(calls) == \A i \in 1..Len(calls) : calls[i].status = "ok"

\* A failing source that leaves the other sources subscribed.
cancelPendingNone(calls) == calls

\* A source of forkJoin fails: forkJoin errors and unsubscribes the others.
cancelPending(calls) ==
  [i \in 1..Len(calls) |->
     IF calls[i].status = "pending" THEN [calls[i] EXCEPT !.status = "cancelled"]
     ELSE calls[i]]

\* The projection with the contact id the editor held before the call.
switchMapProjectPlaceholder(sub, newContactId) ==
  applicationAndCompany(currentApplicationId, sub.formValue, sub.originalContactId)

\* A projection that reads the form when createContact has answered.
switchMapProjectLive(sub, newContactId) ==
  applicationAndCompany(currentApplicationId, form, newContactId)

\* switchMap's projection once createContact has answered with newContact:
\* both payloads are built and forkJoin subscribes the two updates.
switchMapProject(sub, newContactId) ==
  applicationAndCompany(currentApplicationId, sub.formValue, newContactId)

\* Call c of submission s succeeds.
RespondOk(s, c) ==
  /\ s \in 1..Len(subs) /\ c \in 1..Len(subs[s].calls)
  /\ subs[s].calls[c].status = "pending"
  /\ LET sub == subs[s]
         call == sub.calls[c]
         res == IF call.kind = "createContact" THEN store.nextContactId ELSE NullId
         answered == [sub.calls EXCEPT ![c].status = "ok", ![c].result = res]
     IN
       /\ store' = storeAfter(store, call)
       /\ IF sub.phase = "contact"
          THEN /\ subs' = [subs EXCEPT ![s].calls = answered \o switchMapProject(sub, res),
                                       ![s].phase = "fork"]
               /\ UNCHANGED navigations
          ELSE IF AllOk(answered)
               THEN /\ subs' = [subs EXCEPT ![s].calls = answered,
                                            ![s].phase = "done",
                                            ![s].callbacks = Append(@, "next")]
                    /\ navigations' = onSaveSuccess
               ELSE /\ subs' = [subs EXCEPT ![s].calls = answered]
                    /\ UNCHANGED navigations
  /\ UNCHANGED << inited, isEditMode, currentApplicationId, currentContactId,
                  form, loads, touched, nOps, budget, notesTrace, outside >>

\* The contacts submission s has created so far.
createdContacts(sub) ==
  {sub.calls[j].result : j \in {i \in 1..Len(sub.calls) :
      sub.calls[i].kind = "createContact" /\ sub.calls[i].status = "ok"}}

\* An error handler that deletes the contact the submission had created.
RespondErrorCompensating(s, c) ==
  /\ s \in 1..Len(subs) /\ c \in 1..Len(subs[s].calls)
  /\ subs[s].calls[c].status = "pending"
  /\ subs' = [subs EXCEPT
       ![s].calls = cancelPending([@ EXCEPT ![c].status = "failed"])
                      \o (IF createdContacts(subs[s]) = {} THEN << >>
                          ELSE << Call("deleteContact",
                                       CHOOSE r \in createdContacts(subs[s]) : TRUE,
                                       EmptyPayload) >>),
       ![s].phase = "done",
       ![s].error = subs[s].calls[c].kind,
       ![s].callbacks = Append(@, "error")]
  /\ navigations' = onSaveError(subs[s].context)
  /\ UNCHANGED << inited, isEditMode, currentApplicationId, currentContactId,
                  form, loads, store, touched, nOps, budget, notesTrace, outside >>

\* An error handler that also resets the form.
RespondErrorResetting(s, c) ==
  /\ s \in 1..Len(subs) /\ c \in 1..Len(subs[s].calls)
  /\ subs[s].calls[c].status = "pending"
  /\ subs' = [subs EXCEPT ![s].calls = cancelPending([@ EXCEPT ![c].status = "failed"]),
                          ![s].phase = "done",
                          ![s].error = subs[s].calls[c].kind,
                          ![s].callbacks = Append(@, "error")]
  /\ navigations' = onSaveError(subs[s].context)
  /\ form' = setupConditionalValidation(createForm(isEditMode))
  /\ UNCHANGED << inited, isEditMode, currentApplicationId, currentContactId,
                  loads, store, touched, nOps, budget, notesTrace, outside >>

\* Call c of submission s fails: the error reaches the subscriber of onSubmit.
RespondError(s, c) ==
  /\ s \in 1..Len(subs) /\ c \in 1..Len(subs[s].calls)
  /\ subs[s].calls[c].status = "pending"
  /\ subs' = [subs EXCEPT ![s].calls = cancelPending([@ EXCEPT ![c].status = "failed"]),
                          ![s].phase = "done",
                          ![s].error = subs[s].calls[c].kind,
                          ![s].callbacks = Append(@, "error")]
  /\ navigations' = onSaveError(subs[s].context)
  /\ UNCHANGED << inited, isEditMode, currentApplicationId, currentContactId,
                  form, loads, store, touched, nOps, budget, notesTrace, outside >>

-----------------------------------------------------------------------------
(* The editor with every input of the user.                                *)

TitleValues == {"", "Engineer"}
NameValues == {"", "Grace"}
StatusValues == {"DRAFT", "INTERVIEW"}

Next ==
  \/ \E id \in AppIds \cup {NullId} : NgOnInit(id)
  \/ \E id \in AppIds : LoadApplicationForEdit(id)
  \/ \E k \in 1..Len(loads) : LoadNext(k)
  \/ \E k \in 1..Len(loads) : LoadError(k)
  \/ \E v \in TitleValues : SetJobTitle(v)
  \/ \E v \in StatusValues : SetStatus(v)
  \/ \E c \in {"first_name", "last_name"}, v \in NameValues : SetContactField(c, v)
  \/ \E v \in {3} : SetCompanyId(v)
  \/ OnSubmit
  \/ \E s \in 1..Len(subs), c \in 1..3 : RespondOk(s, c)
  \/ \E s \in 1..Len(subs), c \in 1..3 : RespondError(s, c)

Spec == Init /\ [][Next]_vars

-----------------------------------------------------------------------------
(* Vocabulary of the properties.                                           *)

Subs == 1..Len(subs)

\* The positions of the calls of one of the given kinds in submission s.
CallsOf(s, kinds) == {i \in 1..Len(subs[s].calls) : subs[s].calls[i].kind \in kinds}

ContactKinds == {"createContact", "updateContact", "deleteContact"}

\* The edited contact of submission s has both names / has no name.
BothNames(s) ==
  /\ subs[s].formValue.contact.first_name # ""
  /\ subs[s].formValue.contact.last_name # ""
NoNames(s) ==
  /\ subs[s].formValue.contact.first_name = ""
  /\ subs[s].formValue.contact.last_name = ""

\* Submission s is an edit-mode submission that has to create a contact.
CreatesContact(s) ==
  /\ subs[s].context = "update"
  /\ subs[s].originalContactId = NullId
  /\ BothNames(s)

\* C1: in an edit-mode submission that creates a contact, an update-application
\* call exists only once create-contact has succeeded, it follows create-contact
\* in the order of issue, and its contact_id is the id create-contact returned
\* (not null); and once create-contact has succeeded the update is issued.
C1_UpdateAfterCreate ==
  \A s \in Subs : CreatesContact(s) =>
    /\ \A i \in CallsOf(s, {"updateApplication"}) :
         \E j \in CallsOf(s, {"createContact"}) :
           /\ j < i
           /\ subs[s].calls[j].status = "ok"
           /\ subs[s].calls[j].result # NullId
           /\ subs[s].calls[i].payload.contact_id = subs[s].calls[j].result
    /\ \A j \in CallsOf(s, {"createContact"}) :
         subs[s].calls[j].status = "ok" => CallsOf(s, {"updateApplication"}) # {}
    /\ CallsOf(s, {"createContact"}) # {}

C1_Witness ==
  \E s \in Subs :
    /\ CreatesContact(s)
    /\ \E i \in CallsOf(s, {"updateApplication"}) :
         subs[s].calls[i].payload.contact_id = FirstNewContactId

\* C2: if the create-contact call of a submission has failed, the submission
\* holds no update-application and no update-company call, and its subscriber
\* has been called exactly once, with the error.
C2_CreateFailureAborts ==
  \A s \in Subs :
    (\E j \in CallsOf(s, {"createContact"}) : subs[s].calls[j].status = "failed") =>
      /\ CallsOf(s, {"updateApplication", "updateCompany"}) = {}
      /\ subs[s].callbacks = << "error" >>
      /\ subs[s].error = "createContact"

C2_Witness ==
  \E s \in Subs :
    /\ \E j \in CallsOf(s, {"createContact"}) : subs[s].calls[j].status = "failed"
    /\ subs[s].phase = "done"

\* C3: the contact call of an edit-mode submission follows the decision table
\* over (original contact present or absent) x (both names or no name), and no
\* submission holds more than one contact call.
C3_ContactDecisionTable ==
  \A s \in Subs :
    /\ Cardinality(CallsOf(s, ContactKinds)) <= 1
    /\ subs[s].context = "update" =>
         LET o == subs[s].originalContactId
             cs == CallsOf(s, ContactKinds)
         IN
           /\ (o = NullId /\ BothNames(s)) =>
                \E i \in cs : subs[s].calls[i].kind = "createContact"
           /\ (o # NullId /\ NoNames(s)) =>
                \E i \in cs : /\ subs[s].calls[i].kind = "deleteContact"
                              /\ subs[s].calls[i].id = o
           /\ (o # NullId /\ BothNames(s)) =>
                \E i \in cs : /\ subs[s].calls[i].kind = "updateContact"
                              /\ subs[s].calls[i].id = o
           /\ (o = NullId /\ NoNames(s)) => cs = {}

C3_Witness ==
  \E s \in Subs :
    /\ subs[s].originalContactId = 9
    /\ BothNames(s)
    /\ \E i \in CallsOf(s, {"updateContact"}) : subs[s].calls[i].id = 9

\* Submission s is the scenario of C4: edit mode, original contact 9, the
\* names cleared.
DeletesContactNine(s) ==
  /\ subs[s].context = "update"
  /\ subs[s].originalContactId = 9
  /\ NoNames(s)

\* C4: the submission that clears the names of contact 9 holds, from the moment
\* it starts and in every later state, exactly one delete-contact(9), exactly
\* one update-application with contact_id null and exactly one update-company
\* call and nothing else: all three are issued by onSubmit itself, before any
\* of them has resolved.
C4_DeleteRunsConcurrently ==
  \A s \in Subs : DeletesContactNine(s) =>
    /\ Len(subs[s].calls) = 3
    /\ \E i \in CallsOf(s, {"deleteContact"}) :
         /\ CallsOf(s, {"deleteContact"}) = {i}
         /\ subs[s].calls[i].id = 9
    /\ \E i \in CallsOf(s, {"updateApplication"}) :
         /\ CallsOf(s, {"updateApplication"}) = {i}
         /\ subs[s].calls[i].payload.contact_id = NullId
    /\ Cardinality(CallsOf(s, {"updateCompany"})) = 1

C4_Witness ==
  \E s \in Subs :
    /\ DeletesContactNine(s)
    /\ Len(subs[s].calls) = 3
    /\ \A i \in 1..3 : subs[s].calls[i].status = "pending"

\* What a load of application a alone leaves observable in a clean editor.
LoadedForm(f, a) ==
  /\ f.job_title = a.job_title
  /\ f.salary_expectation = a.salary_expectation
  /\ f.status = a.status
  /\ \A d \in DateFields : f[d] = a[d]
  /\ f.company_id = a.company.id
  /\ f.company = [name |-> a.company.name, industry |-> a.company.industry,
                  website |-> a.company.website]
  /\ f.contact = a.contact
  /\ f.notes = loadedNotes(a)

\* No input of the user and no submission so far: every operation was a load.
OnlyLoads == subs = << >> /\ nOps = Len(loads) - 1

\* C5: leak-freedom.  When the latest load was requested after the load of
\* another target had been applied (no fetch in flight), and no input of the
\* user was made, then once its response is applied every observable field is
\* the value of the new target or the default (an absent contact leaves the
\* contact fields empty and currentContactId null, absent notes an empty list).
C5_LeakFreedom ==
  [][LET k == Len(loads) IN
       ( /\ OnlyLoads
         /\ Len(loads') = Len(loads)
         /\ k > 1
         /\ ~loads[k].overlapped
         /\ loads[k].status = "pending" /\ loads'[k].status = "loaded"
         /\ \E j \in 1..(k - 1) : /\ loads[j].status = "loaded"
                                  /\ loads[j].id # loads[k].id )
       => /\ LoadedForm(form', StoreApplications[loads[k].id])
          /\ currentContactId' = StoreApplications[loads[k].id].contact.id]_vars

\* The resolved contact id C6 expects in the application payload of
\* submission s.
ResolvedContactId(s) ==
  IF subs[s].context = "create" THEN NullId
  ELSE IF subs[s].originalContactId = NullId
       THEN IF BothNames(s)
            THEN subs[s].calls[CHOOSE j \in CallsOf(s, {"createContact"}) : TRUE].result
            ELSE NullId
       ELSE IF BothNames(s) THEN subs[s].originalContactId ELSE NullId

\* C6: the contact_id of every application payload (create or update) is the
\* resolved contact id: the id create-contact returned, the original id when
\* the contact is kept or updated, null when it is deleted, when there is none
\* and none is entered, and in create mode.
C6_ResolvedContactId ==
  \A s \in Subs :
    \A i \in CallsOf(s, {"updateApplication", "createApplication"}) :
      /\ subs[s].calls[i].payload.contact_id = ResolvedContactId(s)
      /\ (subs[s].context = "update" /\ subs[s].originalContactId = NullId /\ BothNames(s))
           => subs[s].calls[i].payload.contact_id \in store.contacts

C6_Witness ==
  \E s \in Subs :
    /\ subs[s].originalContactId = 9
    /\ \E i \in CallsOf(s, {"updateApplication"}) :
         /\ subs[s].calls[i].payload.contact_id = 9
         /\ subs[s].calls[i].status = "ok"

\* C7: every submission of an editor in create mode holds exactly one call,
\* create-application, whose payload has no notes field; and a valid form in
\* create mode is never left without one by onSubmit.
C7_CreateModeSingleCall ==
  \A s \in Subs : (~isEditMode \/ subs[s].context = "create") =>
    /\ subs[s].context = "create" /\ ~isEditMode
    /\ Len(subs[s].calls) = 1
    /\ subs[s].calls[1].kind = "createApplication"
    /\ "notes" \notin DOMAIN subs[s].calls[1].payload
    /\ subs[s].calls[1].payload.job_title = subs[s].formValue.job_title
    /\ subs[s].calls[1].payload.company_id = subs[s].formValue.company_id
    /\ subs[s].calls[1].payload.status = subs[s].formValue.status

C7_Witness ==
  \E s \in Subs :
    /\ subs[s].context = "create"
    /\ subs[s].calls[1].payload.job_title = "Engineer"
    /\ subs[s].calls[1].payload.company_id = 3
    /\ subs[s].calls[1].payload.status = "DRAFT"

\* The date a status implies, as the specification's data model states it.
ImpliedDate(status) ==
  CASE status = "APPLIED" -> {"applied_on"}
    [] status = "INTERVIEW" -> {"interview_on"}
    [] status = "OFFER" -> {"offer_on"}
    [] status = "REJECTED" -> {"rejected_on"}
    [] OTHER -> {}

\* The invalid edit states C8 names: a required scalar field empty (the
\* company selection counts where it can be edited), the date the status
\* implies missing, or exactly one of the contact's two names filled.
InvalidEditState(f) ==
  \/ f.job_title = ""
  \/ f.status = ""
  \/ ~isEditMode /\ f.company_id = NullId
  \/ \E d \in ImpliedDate(f.status) : f[d] \in {"", NullStr}
  \/ isEditMode /\ (f.company.name = "" \/ f.company.industry = "")
  \/ isEditMode /\ (f.contact.first_name = "") # (f.contact.last_name = "")

\* C8: no step taken from an invalid edit state starts a submission, and the
\* onSubmit that is blocked (it marks the form as touched) leaves the form's
\* values, the submissions with their calls, the store and the editor's ids
\* unchanged.
C8_InvalidBlocksSubmission ==
  [][/\ (inited /\ InvalidEditState(form)) => Len(subs') = Len(subs)
     /\ (~touched /\ touched') =>
          /\ InvalidEditState(form)
          /\ form' = form /\ subs' = subs /\ store' = store
          /\ currentContactId' = currentContactId
          /\ currentApplicationId' = currentApplicationId]_vars

C8_Witness ==
  /\ touched
  /\ isEditMode
  /\ form.contact.first_name = "" /\ form.contact.last_name = "Grace"
  /\ subs = << >>

\* C9: in every submission, a failed call means the subscriber got exactly one
\* callback, the error, carrying the error of the one call that failed (the
\* first failure: no later call of the submission can fail); the success
\* callback means every call of the submission succeeded; and no call is
\* issued twice.
C9_FirstErrorOrAllOk ==
  \A s \in Subs :
    LET failed == {i \in 1..Len(subs[s].calls) : subs[s].calls[i].status = "failed"}
    IN
      /\ failed # {} =>
           /\ subs[s].callbacks = << "error" >>
           /\ Cardinality(failed) = 1
           /\ \A i \in failed : subs[s].error = subs[s].calls[i].kind
           /\ \A i \in 1..Len(subs[s].calls) : subs[s].calls[i].status # "pending"
      /\ (\E i \in 1..Len(subs[s].callbacks) : subs[s].callbacks[i] = "next") =>
           /\ subs[s].callbacks = << "next" >>
           /\ \A i \in 1..Len(subs[s].calls) : subs[s].calls[i].status = "ok"
           /\ CallsOf(s, {"updateApplication", "createApplication"}) # {}
      /\ (subs[s].callbacks = << >>) = (failed = {} /\ subs[s].phase # "done")
      /\ \A i, j \in 1..Len(subs[s].calls) :
           subs[s].calls[i].kind = subs[s].calls[j].kind => i = j

C9_Witness ==
  \E s \in Subs :
    /\ Len(subs[s].calls) = 3
    /\ subs[s].phase = "done"
    /\ \E i, j, k \in 1..3 :
         /\ subs[s].calls[i].status = "ok"
         /\ subs[s].calls[j].status = "failed"
         /\ subs[s].calls[k].status = "cancelled"
    /\ subs[s].callbacks = << "error" >>

\* Submission s created contact r and then ended in failure.
CreatedThenFailed(s, r) ==
  /\ \E j \in CallsOf(s, {"createContact"}) :
       subs[s].calls[j].status = "ok" /\ subs[s].calls[j].result = r
  /\ subs[s].callbacks = << "error" >>

\* No call of any submission deletes contact r.
NoCompensation(r) ==
  \A t \in Subs : \A i \in CallsOf(t, {"deleteContact"}) : subs[t].calls[i].id # r

\* C10 as stated (for an editor that loaded its application once): after
\* create-contact succeeded and a following update failed, no compensating
\* call is issued and the created contact is in the store, unlinked from the
\* application.
C10_AsStated ==
  \A s \in Subs : \A r \in store.contacts :
    (Len(loads) = 1 /\ CreatedThenFailed(s, r)) =>
      /\ NoCompensation(r)
      /\ \A a \in AppIds : store.link[a] # r

\* C10 amended: after create-contact succeeded and a following update failed,
\* the submission has ended with the one error callback, no compensating call
\* is issued and the created contact stays in the store; it is unlinked from
\* every application when update-application is the call that failed.
C10_NoCompensation ==
  \A s \in Subs :
    \A j \in CallsOf(s, {"createContact"}) :
      (subs[s].calls[j].status = "ok" /\ subs[s].callbacks = << "error" >>) =>
        LET r == subs[s].calls[j].result IN
          /\ subs[s].phase = "done"
          /\ NoCompensation(r)
          /\ r \in store.contacts
          /\ Len(subs[s].calls) = 3
          /\ (\E i \in CallsOf(s, {"updateApplication"}) :
                 subs[s].calls[i].status = "failed")
               => \A a \in AppIds : store.link[a] # r

C10_Witness ==
  \E s \in Subs :
    /\ CreatedThenFailed(s, FirstNewContactId)
    /\ \E i \in CallsOf(s, {"updateApplication"}) : subs[s].calls[i].status = "failed"
    /\ FirstNewContactId \in store.contacts
    /\ \A a \in AppIds : store.link[a] # FirstNewContactId

-----------------------------------------------------------------------------
(* The outcome of a submission.                                            *)

\* A response arrives for some call that is still awaited.
Respond ==
  \E s \in 1..Len(subs), c \in 1..3 : RespondOk(s, c) \/ RespondError(s, c)

\* The sessions that open the editor, fill it in and submit, and in which
\* every issued call is eventually answered.
NextFair ==
  \/ \E id \in AppIds \cup {NullId} : NgOnInit(id)
  \/ \E k \in 1..Len(loads) : LoadNext(k)
  \/ \E v \in {"Engineer"} : SetJobTitle(v)
  \/ \E c \in {"first_name", "last_name"}, v \in NameValues : SetContactField(c, v)
  \/ \E v \in {3} : SetCompanyId(v)
  \/ OnSubmit
  \/ \E s \in 1..Len(subs), c \in 1..3 : RespondOk(s, c)
  \/ \E s \in 1..Len(subs), c \in 1..3 : RespondError(s, c)

SpecFair == Init /\ [][NextFair]_vars /\ WF_vars(Respond)

\* Submission n has had exactly one of its two callbacks run, once.
Settled(n) ==
  /\ n \in Subs
  /\ subs[n].phase = "done"
  /\ subs[n].callbacks \in {<< "next" >>, << "error" >>}

\* C11: when every issued call is eventually answered, every submission that
\* passed validation eventually has exactly one outcome, success or failure,
\* and at no time has a submission had two callbacks run.
C11_ExactlyOneOutcome ==
  /\ [](\A s \in Subs : Len(subs[s].callbacks) <= 1)
  /\ [](\A s \in Subs : subs[s].phase = "done" => Settled(s))
  /\ \A n \in 1..MaxSubmits : (Len(subs) >= n) ~> Settled(n)

\* A submission whose update-application call failed has
\* had its error callback run once, with no call left awaited.
C11_Witness ==
  \E s \in Subs :
    /\ Settled(s)
    /\ subs[s].callbacks = << "error" >>
    /\ subs[s].error = "updateApplication"
    /\ \A i \in 1..Len(subs[s].calls) : subs[s].calls[i].status # "pending"

-----------------------------------------------------------------------------
(* Submitting again while a submission is awaited.                         *)

\* The sessions in which the user fills the editor in and presses submit more
\* than once: one more operation and one more submission than in Spec.
InitResubmit == InitState([ops |-> MaxOps + 1, subs |-> MaxSubmits + 1])

NextResubmit ==
  \/ \E id \in AppIds \cup {NullId} : NgOnInit(id)
  \/ \E k \in 1..Len(loads) : LoadNext(k)
  \/ \E v \in {"Engineer"} : SetJobTitle(v)
  \/ \E c \in {"first_name", "last_name"}, v \in {"Grace"} : SetContactField(c, v)
  \/ \E v \in {3} : SetCompanyId(v)
  \/ OnSubmit
  \/ \E s \in 1..Len(subs), c \in 1..3 : RespondOk(s, c)
  \/ \E s \in 1..Len(subs), c \in 1..3 : RespondError(s, c)

SpecResubmit == InitResubmit /\ [][NextResubmit]_vars

\* Submission s has calls that are still awaited.
InFlight(s) == s \in Subs /\ subs[s].phase # "done"

\* C12: at no time are two submissions of the editor in flight, and no
\* submission starts while another one is.
C12_SubmitOnlyFromIdle ==
  \A s, t \in Subs : s # t => ~(InFlight(s) /\ InFlight(t))

-----------------------------------------------------------------------------
(* The contact's details.                                                  *)

ContactFields == {"first_name", "last_name", "email", "position", "phone"}

\* What the user types into a field of the contact sub-section.
ContactValues(c) ==
  CASE c = "first_name" -> {"", "Grace"}
    [] c = "last_name" -> {"", "Hopper"}
    [] c = "email" -> {"", "grace@navy.example"}
    [] c = "position" -> {"", "Admiral"}
    [] c = "phone" -> {"", "222"}

\* The sessions that open an application, edit the contact's details and
\* submit.
NextContact ==
  \/ \E id \in StoredIds : NgOnInit(id)
  \/ \E k \in 1..Len(loads) : LoadNext(k)
  \/ \E c \in ContactFields : \E v \in ContactValues(c) : SetContactField(c, v)
  \/ OnSubmit
  \/ \E s \in 1..Len(subs), c \in 1..3 : RespondOk(s, c)
  \/ \E s \in 1..Len(subs), c \in 1..3 : RespondError(s, c)

SpecContact == Init /\ [][NextContact]_vars

\* The fields of the contact that are not empty in the edited state.
NonEmptyFields(contact) ==
  {k \in ContactFields : contact[k] # "" /\ contact[k] # NullStr}

\* C13: the payload of every update-contact call holds exactly the fields of
\* the edited contact that are not empty, each with its edited value, and
\* never the id.
C13_PartialUpdate ==
  \A s \in Subs : \A i \in CallsOf(s, {"updateContact"}) :
    LET payload == subs[s].calls[i].payload
        edited == subs[s].formValue.contact
    IN /\ DOMAIN payload = NonEmptyFields(edited)
       /\ \A k \in DOMAIN payload : payload[k] = edited[k]

\* An update of contact 9 whose phone was emptied and whose e-mail address
\* was filled in: the payload has the names and the address, no phone.
C13_Witness ==
  \E s \in Subs : \E i \in CallsOf(s, {"updateContact"}) :
    /\ subs[s].calls[i].id = 9
    /\ subs[s].formValue.contact.phone = ""
    /\ DOMAIN subs[s].calls[i].payload = {"first_name", "last_name", "email"}

\* Submission s edits application 3, whose contact has id 7, keeps both
\* names and every other detail and changes the phone to a new number.
OnlyPhoneChanged(s) ==
  LET edited == subs[s].formValue.contact
      original == StoreApplications[3].contact
  IN /\ subs[s].context = "update"
     /\ subs[s].originalContactId = 7
     /\ edited.phone # original.phone /\ edited.phone # ""
     /\ \A k \in {"id", "first_name", "last_name", "email", "position"} :
          edited[k] = original[k]

\* C14 as stated: when only the phone of contact 7 was changed, the
\* update-contact call for id 7 carries the phone and nothing else.
C14_AsStated ==
  \A s \in Subs : OnlyPhoneChanged(s) =>
    /\ \E i \in CallsOf(s, {"updateContact"}) : subs[s].calls[i].id = 7
    /\ \A i \in CallsOf(s, {"updateContact"}) :
         DOMAIN subs[s].calls[i].payload = {"phone"}

\* C14: when only the phone of contact 7 was changed, the submission issues
\* one update-contact call, for id 7, whose payload is the two unchanged names
\* and the new phone.
C14_NamesAndPhone ==
  \A s \in Subs : OnlyPhoneChanged(s) =>
    /\ Cardinality(CallsOf(s, {"updateContact"})) = 1
    /\ \A i \in CallsOf(s, {"updateContact"}) :
         /\ subs[s].calls[i].id = 7
         /\ subs[s].calls[i].payload =
              [first_name |-> "Alan", last_name |-> "Turing",
               phone |-> subs[s].formValue.contact.phone]

C14_Witness ==
  \E s \in Subs :
    /\ OnlyPhoneChanged(s)
    /\ subs[s].formValue.contact.phone = "222"
    /\ \E i \in CallsOf(s, {"updateContact"}) : subs[s].calls[i].status = "ok"

-----------------------------------------------------------------------------
(* Filling the editor in while the fetch is awaited.                       *)

\* The sessions that open an application for editing and in which the user
\* types the title and the company's details, before or after the fetch has
\* answered or failed, and submits: one more operation than in Spec.
InitEarly == InitState([ops |-> MaxOps + 1, subs |-> MaxSubmits])

NextEarly ==
  \/ \E id \in AppIds : NgOnInit(id)
  \/ \E k \in 1..Len(loads) : LoadNext(k)
  \/ \E v \in {"Engineer"} : SetJobTitle(v)
  \/ \E c \in {"name", "industry"}, v \in {"Dunes"} : SetCompanyField(c, v)
  \/ \E k \in 1..Len(loads) : LoadError(k)
  \/ OnSubmit
  \/ \E s \in 1..Len(subs), c \in 1..3 : RespondOk(s, c)
  \/ \E s \in 1..Len(subs), c \in 1..3 : RespondError(s, c)

SpecEarly == InitEarly /\ [][NextEarly]_vars

\* C15: every edit-mode submission that has reached its concurrent phase has
\* issued exactly one update-company call, with the name, industry and website
\* of the edited company sub-section, for the company of the application the
\* session was opened on.
C15_CompanyOfLoadedApplication ==
  \A s \in Subs :
    (subs[s].context = "update" /\ subs[s].phase # "contact") =>
      /\ Cardinality(CallsOf(s, {"updateCompany"})) = 1
      /\ \A i \in CallsOf(s, {"updateCompany"}) :
           /\ subs[s].calls[i].payload.name = subs[s].formValue.company.name
           /\ subs[s].calls[i].payload.industry = subs[s].formValue.company.industry
           /\ subs[s].calls[i].payload.website \in
                {subs[s].formValue.company.website, NullStr}
           /\ subs[s].calls[i].id = StoreApplications[currentApplicationId].company.id

-----------------------------------------------------------------------------
(* The notes.                                                              *)

\* The sessions that open an application for editing and in which the user
\* adds notes, deletes notes and types note texts, and submits: one more
\* operation than in Spec.
InitNotes == InitState([ops |-> MaxOps + 1, subs |-> MaxSubmits])

NextNotes ==
  \/ \E id \in AppIds : NgOnInit(id)
  \/ \E k \in 1..Len(loads) : LoadNext(k)
  \/ OnAddNote
  \/ \E i \in 1..3 : OnDeleteNote(i)
  \/ \E i \in 1..3, v \in {"ping"} : SetNoteText(i, v)
  \/ OnSubmit
  \/ \E s \in 1..Len(subs), c \in 1..3 : RespondOk(s, c)
  \/ \E s \in 1..Len(subs), c \in 1..3 : RespondError(s, c)

SpecNotes == InitNotes /\ [][NextNotes]_vars

\* The notes list that a recorded sequence of operations stands for: the
\* loaded list of the fetch, the note at a deleted position taken out, an
\* added note put at the end without id, a typed text put at its position.
RECURSIVE ExpectedNotes(_)
ExpectedNotes(trace) ==
  IF trace = << >> THEN << >>
  ELSE LET before == ExpectedNotes(SubSeq(trace, 1, Len(trace) - 1))
           last == trace[Len(trace)]
       IN CASE last.op = "load" ->
                 [i \in 1..Len(StoreApplications[last.index].notes) |->
                    [id |-> StoreApplications[last.index].notes[i].id,
                     text |-> StoreApplications[last.index].notes[i].text]]
            [] last.op = "add" -> before \o << [id |-> NullId, text |-> ""] >>
            [] last.op = "delete" ->
                 SubSeq(before, 1, last.index - 1)
                   \o SubSeq(before, last.index + 1, Len(before))
            [] last.op = "text" -> [before EXCEPT ![last.index].text = last.text]

\* The ids of the notes application a is loaded with.
LoadedNoteIds(a) ==
  {StoreApplications[a].notes[k].id : k \in 1..Len(StoreApplications[a].notes)}

\* C16: the notes list in the payload of every update-application call is the
\* loaded list with the deleted positions removed and the added notes
\* appended, in that order: loaded notes that survive keep their id, added
\* notes have none.
C16_NotesPreserved ==
  \A s \in Subs : \A i \in CallsOf(s, {"updateApplication"}) :
    /\ subs[s].calls[i].payload.notes = ExpectedNotes(subs[s].notesTrace)
    /\ \A n \in 1..Len(subs[s].calls[i].payload.notes) :
         subs[s].calls[i].payload.notes[n].id \in
           {NullId} \cup UNION {LoadedNoteIds(a) : a \in AppIds}

\* Application 1 was loaded with notes 11 and 12, note 11 was deleted, a note
\* was added and given a text: the payload holds note 12 and then the new note.
C16_Witness ==
  \E s \in Subs : \E i \in CallsOf(s, {"updateApplication"}) :
    /\ Len(subs[s].notesTrace) = 4
    /\ subs[s].calls[i].payload.notes =
         << [id |-> 12, text |-> "mailed"], [id |-> NullId, text |-> "ping"] >>

-----------------------------------------------------------------------------
(* Loading and saving without edits.                                       *)

\* Submission s was started on the form as the one fetch of the session had
\* filled it, with no input of the user.
SubmittedAsLoaded(s) ==
  /\ subs[s].context = "update"
  /\ Len(loads) = 1
  /\ currentApplicationId \in AppIds
  /\ LoadedForm(subs[s].formValue, StoreApplications[currentApplicationId])

\* The scalar fields of an application.
ScalarFields ==
  {"job_title", "salary_expectation", "status", "job_posting_link"} \cup DateFields

\* C17: when an application is loaded and submitted without edits, the
\* payload of the update-application call carries the title, the salary
\* expectation, the status, the five dates and the posting link, each equal to
\* the loaded value.
C17_ScalarRoundTrip ==
  \A s \in Subs : SubmittedAsLoaded(s) =>
    \A i \in CallsOf(s, {"updateApplication"}) : \A k \in ScalarFields :
      /\ k \in DOMAIN subs[s].calls[i].payload
      /\ subs[s].calls[i].payload[k] = StoreApplications[currentApplicationId][k]


\* Every fetch of the session was for application id, one after the other,
\* each answered before the next was requested, and the user did nothing else.
LoadedInSuccession(id) ==
  /\ OnlyLoads
  /\ Len(loads) >= 1
  /\ \A k \in 1..Len(loads) :
       /\ loads[k].id = id
       /\ loads[k].status = "loaded"
       /\ ~loads[k].overlapped

\* C18: after the same application was loaded once or several times in
\* succession, the editable state is the one the first load leaves: the
\* application's scalars, company, contact and contact id, and its notes once
\* each, in their order.
C18_ReloadIdempotent ==
  \A id \in AppIds : LoadedInSuccession(id) =>
    /\ LoadedForm(form, StoreApplications[id])
    /\ currentContactId = StoreApplications[id].contact.id
    /\ form.required = RequiredDates(StoreApplications[id].status)

\* Application 1 was loaded twice in succession and the form has its two
\* notes.
C18_Witness ==
  /\ LoadedInSuccession(1)
  /\ Len(loads) = 2
  /\ Len(form.notes) = 2

-----------------------------------------------------------------------------
(* Errors of the fetch and of the save.                                    *)

\* In this step request k of the fetch fails.
FetchFails(k) == loads[k].status = "pending" /\ loads'[k].status = "failed"

\* In this step the error callback of submission s runs.
SaveFails(s) ==
  Len(subs[s].callbacks) = 0 /\ subs'[s].callbacks = << "error" >>

-----------------------------------------------------------------------------
(* The validator of the contact sub-section.                               *)

\* Exactly one of the two names of the contact is empty.
OneNameMissing(c) ==
  (c.first_name \in {"", NullStr}) # (c.last_name \in {"", NullStr})

\* C20: contactRequiredValidator reports the contact sub-section invalid
\* exactly when one of first_name and last_name is filled in and the other is
\* empty, for the contact of the form and of every submission.
C20_ExactlyOneName ==
  /\ contactRequiredValidator(form.contact) <=> OneNameMissing(form.contact)
  /\ \A s \in Subs : ~OneNameMissing(subs[s].formValue.contact)

\* A last name without a first name, on a submit that was refused.
C20_Witness ==
  /\ form.contact.first_name = "" /\ form.contact.last_name = "Hopper"
  /\ contactRequiredValidator(form.contact)
  /\ touched
  /\ subs = << >>

-----------------------------------------------------------------------------
(* The status and the dates it makes required.                             *)

\* The sessions in which the user moves the status through all its values.
NextStatus ==
  \/ \E id \in AppIds \cup {NullId} : NgOnInit(id)
  \/ \E k \in 1..Len(loads) : LoadNext(k)
  \/ \E v \in ApplicationStatus : SetStatus(v)
  \/ OnSubmit
  \/ \E s \in 1..Len(subs), c \in 1..3 : RespondOk(s, c)
  \/ \E s \in 1..Len(subs), c \in 1..3 : RespondError(s, c)

SpecStatus == Init /\ [][NextStatus]_vars

\* Form f with every date filled in.
WithAllDates(f) ==
  [f EXCEPT !.applied_on = "2025-03-01", !.interview_on = "2025-03-02",
            !.offer_on = "2025-03-03", !.rejected_on = "2025-03-04",
            !.follow_up_on = "2025-03-05"]

\* The dates validation asks for: with every other control valid, the form
\* is invalid once the date alone is emptied.
RequiredByValidation(f) ==
  {d \in DateFields : FormInvalid([WithAllDates(f) EXCEPT ![d] = NullStr])}

\* The form is valid apart, possibly, from its dates.
ValidButDates(f) == ~FormInvalid(WithAllDates(f))

\* C21 as stated: whatever the status, validation asks for exactly one date.
C21_AsStated ==
  (inited /\ ValidButDates(form)) => Cardinality(RequiredByValidation(form)) = 1

\* C21: validation asks for exactly one date, the one the status implies,
\* when the status is APPLIED, INTERVIEW, OFFER or REJECTED, and for no date
\* when it is DRAFT or WITHDRAWN.
C21_ImpliedDateOrNone ==
  (inited /\ ValidButDates(form)) =>
    /\ RequiredByValidation(form) = ImpliedDate(form.status)
    /\ Cardinality(RequiredByValidation(form)) =
         (IF form.status \in {"DRAFT", "WITHDRAWN"} THEN 0 ELSE 1)

\* Application 1 was loaded, the status was moved to REJECTED and then to
\* WITHDRAWN: no date is asked for; the rejection date was asked for before.
C21_Witness ==
  /\ inited /\ ValidButDates(form)
  /\ form.status = "WITHDRAWN"
  /\ form.job_title = "Engineer"
  /\ nOps >= 1
  /\ RequiredByValidation(form) = {}

\* C29: in every state the dates with a required validator are those of the
\* current status alone: the implied date for APPLIED, INTERVIEW, OFFER and
\* REJECTED, none for DRAFT and WITHDRAWN, and never follow_up_on.
C29_RequiredFollowsStatus ==
  /\ form.required =
       (CASE form.status = "APPLIED" -> {"applied_on"}
          [] form.status = "INTERVIEW" -> {"interview_on"}
          [] form.status = "OFFER" -> {"offer_on"}
          [] form.status = "REJECTED" -> {"rejected_on"}
          [] form.status \in {"DRAFT", "WITHDRAWN"} -> {})
  /\ "follow_up_on" \notin form.required

\* Application 1 was loaded with status APPLIED and the status was changed
\* twice, last to OFFER: only the offer date is required.
C29_Witness ==
  /\ Len(loads) = 1 /\ loads[1].id = 1 /\ loads[1].status = "loaded"
  /\ nOps = 2
  /\ form.status = "OFFER"
  /\ form.required = {"offer_on"}

-----------------------------------------------------------------------------
(* The resolution of a submission into calls.                              *)

\* Call i of submission s as the resolution decided it: its kind, target and
\* payload, without the id that the store gave to a contact created on the
\* way.
Decision(s, i) ==
  LET c == subs[s].calls[i] IN
  [kind |-> c.kind, id |-> c.id,
   payload |-> IF c.kind = "updateApplication"
                  /\ subs[s].calls[1].kind = "createContact"
               THEN [c.payload EXCEPT !.contact_id = NullId]
               ELSE c.payload]

\* Submissions s and t started from the same original and edited state.
SameStart(s, t) ==
  /\ subs[s].context = subs[t].context
  /\ subs[s].originalContactId = subs[t].originalContactId
  /\ subs[s].formValue = subs[t].formValue

\* The calls of submission s form one operation set: in create mode the one
\* create-application call; in edit mode at most one contact call and, unless
\* a create-contact call is awaited or has failed, one update of the
\* application and one of the company.
OneOperationSet(s) ==
  IF subs[s].context = "create"
  THEN Len(subs[s].calls) = 1 /\ subs[s].calls[1].kind = "createApplication"
  ELSE /\ Len(subs[s].calls) >= 1
       /\ Cardinality(CallsOf(s, ContactKinds)) <= 1
       /\ (subs[s].calls[1].kind = "createContact" => subs[s].calls[1].status = "ok") =>
            /\ Cardinality(CallsOf(s, {"updateApplication"})) = 1
            /\ Cardinality(CallsOf(s, {"updateCompany"})) = 1

C23_ConsistentSnapshot ==
  \A s \in Subs : \A i \in 1..Len(subs[s].calls) :
    LET c == subs[s].calls[i]
        snapshot == subs[s].formValue
    IN /\ c.kind \in {"updateApplication", "createApplication"} =>
            /\ c.payload.job_title = snapshot.job_title
            /\ c.payload.status = snapshot.status
            /\ c.payload.company_id = snapshot.company_id
       /\ c.kind = "updateApplication" =>
            /\ Len(c.payload.notes) = Len(snapshot.notes)
            /\ \A n \in 1..Len(snapshot.notes) :
                 /\ c.payload.notes[n].id = snapshot.notes[n].id
                 /\ c.payload.notes[n].text = snapshot.notes[n].text
       /\ c.kind = "updateCompany" =>
            /\ c.id = snapshot.company_id
            /\ c.payload.name = snapshot.company.name
            /\ c.payload.industry = snapshot.company.industry
       /\ c.kind \in {"createContact", "updateContact"} =>
            /\ c.payload.first_name = snapshot.contact.first_name
            /\ c.payload.last_name = snapshot.contact.last_name

\* The title was changed while create-contact was awaited, and the update of
\* the application issued afterwards carries the title as submitted.
C23_Witness ==
  \E s \in Subs : \E i \in CallsOf(s, {"updateApplication"}) :
    /\ subs[s].calls[1].kind = "createContact"
    /\ subs[s].calls[1].status = "ok"
    /\ form.job_title # subs[s].formValue.job_title
    /\ subs[s].calls[i].payload.job_title = subs[s].formValue.job_title

-----------------------------------------------------------------------------
(* Creating a contact from the editor.                                     *)

\* The sessions that open an application for editing and in which the user
\* types the title, the company's details and a contact, before or after the
\* fetch has answered, and submits: three more operations than in Spec.
InitFillIn == InitState([ops |-> MaxOps + 3, subs |-> MaxSubmits])

NextFillIn ==
  \/ \E id \in AppIds : NgOnInit(id)
  \/ \E k \in 1..Len(loads) : LoadNext(k)
  \/ \E v \in {"Engineer"} : SetJobTitle(v)
  \/ \E c \in {"name", "industry"}, v \in {"Dunes"} : SetCompanyField(c, v)
  \/ \E c \in {"first_name", "last_name"} :
       \E v \in ContactValues(c) \ {""} : SetContactField(c, v)
  \/ OnSubmit
  \/ \E s \in 1..Len(subs), c \in 1..3 : RespondOk(s, c)
  \/ \E s \in 1..Len(subs), c \in 1..3 : RespondError(s, c)

SpecFillIn == InitFillIn /\ [][NextFillIn]_vars

\* C30: the payload of every create-contact call has the two names and the
\* id of the company of the application being edited, has each of email,
\* position and phone exactly when its edited value is not empty, and has no
\* id.
C30_CreateContactPayload ==
  \A s \in Subs : \A i \in CallsOf(s, {"createContact"}) :
    LET payload == subs[s].calls[i].payload
        edited == subs[s].formValue.contact
    IN /\ DOMAIN payload =
            {"first_name", "last_name", "company_id"}
              \cup (NonEmptyFields(edited) \cap {"email", "position", "phone"})
       /\ \A k \in DOMAIN payload \ {"company_id"} : payload[k] = edited[k]
       /\ payload.company_id = StoreApplications[currentApplicationId].company.id

-----------------------------------------------------------------------------
(* The shell of the application: Api's token, authGuard, authInterceptor   *)
(* and the root component App.                                             *)

\* Api.isLoggedIn: this.getToken() !== null.
isLoggedIn(token) == token # NullStr

\* authGuard failing to consult the Api: every activation is allowed.
authGuardOpen(token) == [allowed |-> TRUE, redirect |-> ""]

\* authGuard: true when Api.isLoggedIn(), otherwise router.navigate(['/login'])
\* and false.
authGuard(token) ==
  IF isLoggedIn(token)
  THEN [allowed |-> TRUE, redirect |-> ""]
  ELSE [allowed |-> FALSE, redirect |-> "/login"]

\* String.prototype.startsWith.
startsWith(s, prefix) ==
  /\ Len(s) >= Len(prefix)
  /\ SubSeq(s, 1, Len(prefix)) = prefix

ApiPrefix == << "/", "a", "p", "i" >>

\* The header value `Token ${authToken}`.
TokenHeader(token) == << "Token", token >>

\* authInterceptor attaching the token whatever the URL.
authInterceptorAnyUrl(token, req) ==
  IF TruthyStr(token)
  THEN [req EXCEPT !.authorization = TokenHeader(token)]
  ELSE req

\* authInterceptor: the request next() is called with.
authInterceptor(token, req) ==
  IF TruthyStr(token) /\ startsWith(req.url, ApiPrefix)
  THEN [req EXCEPT !.authorization = TokenHeader(token)]
  ELSE req

\* The token values a login stores: a real one and the empty string.
Tokens == {"abc", ""}

\* The URLs requested: /api/x, /api, /ap, /assets, http://x/api and //x/api.
Urls ==
  { << "/", "a", "p", "i", "/", "x" >>,
    << "/", "a", "p", "i" >>,
    << "/", "a", "p" >>,
    << "/", "a", "s", "s", "e", "t", "s" >>,
    << "h", "t", "t", "p", ":", "/", "/", "x", "/", "a", "p", "i" >>,
    << "/", "/", "x", "/", "a", "p", "i" >> }

\* What GET /api/companies/ answers with.
ServerCompanies ==
  << StoreApplications[1].company, StoreApplications[2].company,
     StoreApplications[3].company >>

\* App.loadCompanies: getCompanies() is subscribed to; nothing cancels it.
loadCompanies(a) ==
  [a EXCEPT !.requests = Append(@, [status |-> "pending"])]

\* The subscriber of isLoggedIn$ in App.ngOnInit, called with an emission.
onLoggedIn(a, value) ==
  IF value THEN loadCompanies(a) ELSE [a EXCEPT !.companies = << >>]

\* What an emission of loggedIn does to App: nothing unless it is subscribed.
Emit(a, value) == IF a.phase = "subscribed" THEN onLoggedIn(a, value) ELSE a

\* App.ngOnInit: subscribing to the BehaviorSubject delivers its current value.
AppNgOnInit ==
  /\ app.phase = "constructed"
  /\ app' = onLoggedIn([app EXCEPT !.phase = "subscribed"], api.loggedIn)
  /\ UNCHANGED << editor, api, guard, http, company, list >>

\* App.ngOnDestroy: authSubscription.unsubscribe().
AppNgOnDestroy ==
  /\ app.phase = "subscribed"
  /\ app' = [app EXCEPT !.phase = "destroyed"]
  /\ UNCHANGED << editor, api, guard, http, company, list >>

\* Login.onSubmit's next handler: Api.saveToken(response.token).
SaveToken(token) ==
  /\ api.n < budget.ops
  /\ api' = [token |-> token, loggedIn |-> TRUE, last |-> "saveToken",
             n |-> api.n + 1]
  /\ app' = Emit(app, TRUE)
  /\ UNCHANGED << editor, guard, http, company, list >>

\* App.logout: Api.logout().
Logout ==
  /\ api.n < budget.ops
  /\ api' = [token |-> NullStr, loggedIn |-> FALSE, last |-> "logout",
             n |-> api.n + 1]
  /\ app' = Emit(app, FALSE)
  /\ UNCHANGED << editor, guard, http, company, list >>

\* getCompanies answers: next of App.loadCompanies.
CompaniesOk(k) ==
  /\ app.requests[k].status = "pending"
  /\ app' = [app EXCEPT !.requests[k].status = "ok",
                        !.companies = ServerCompanies]
  /\ UNCHANGED << editor, api, guard, http, company, list >>

\* getCompanies fails: error of App.loadCompanies only logs.
CompaniesError(k) ==
  /\ app.requests[k].status = "pending"
  /\ app' = [app EXCEPT !.requests[k].status = "error"]
  /\ UNCHANGED << editor, api, guard, http, company, list >>

\* The router asks authGuard whether a protected route may be activated.
CanActivate ==
  /\ guard' = [asked |-> TRUE, token |-> api.token,
               allowed |-> authGuard(api.token).allowed,
               redirect |-> authGuard(api.token).redirect]
  /\ UNCHANGED << editor, api, app, http, company, list >>

\* A request goes through authInterceptor.
Intercept(req) ==
  /\ http' = [sent |-> TRUE, token |-> api.token, request |-> req,
              forwarded |-> authInterceptor(api.token, req)]
  /\ UNCHANGED << editor, api, app, guard, company, list >>

\* The requests made: with and without an Authorization header of their own.
Requests == [url : Urls, authorization : {NoHeader, << "Basic", "x" >>}]

\* The shell, started over each content of localStorage's authToken entry.
InitShell ==
  /\ InitEditor([ops |-> MaxOps, subs |-> MaxSubmits])
  /\ api \in {ApiConstructed(t) : t \in Tokens \cup {NullStr}}
  /\ app = AppConstructed
  /\ guard = GuardIdle
  /\ http = HttpIdle
  /\ company = CompanyConstructed
  /\ list = ListConstructed(0)

NextShell ==
  \/ AppNgOnInit
  \/ AppNgOnDestroy
  \/ \E t \in Tokens : SaveToken(t)
  \/ Logout
  \/ \E k \in 1..Len(app.requests) : CompaniesOk(k)
  \/ \E k \in 1..Len(app.requests) : CompaniesError(k)
  \/ CanActivate
  \/ \E req \in Requests : Intercept(req)

SpecShell == InitShell /\ [][NextShell]_vars

\* C24: a protected route is activated only when a token is stored; with no
\* token stored the activation is denied and a navigation to /login is
\* requested; and after saveToken and logout calls isLoggedIn() is true
\* exactly when the last of them was saveToken.
C24_GuardFollowsToken ==
  /\ guard.asked =>
       /\ guard.allowed <=> guard.token # NullStr
       /\ guard.allowed => guard.redirect = ""
       /\ ~guard.allowed => guard.redirect = "/login"
  /\ api.last # "none" => (isLoggedIn(api.token) <=> api.last = "saveToken")

\* After a login and a logout, the guard denied an activation and sent the
\* user to /login.
C24_Witness ==
  /\ api.n >= 2
  /\ api.last = "logout"
  /\ guard.asked
  /\ guard.token = NullStr
  /\ ~guard.allowed
  /\ guard.redirect = "/login"

\* C25: after a logout the companies list of the root component is empty
\* until the next login, whatever getCompanies responses arrive in between.
C25_EmptyAfterLogout ==
  (app.phase = "subscribed" /\ api.last = "logout") => app.companies = << >>

\* A URL that leaves the application's origin: it names a scheme or a host.
External(url) ==
  \/ startsWith(url, << "/", "/" >>)
  \/ \E i \in 1..Len(url) : startsWith(SubSeq(url, i, Len(url)), << ":", "/", "/" >>)

\* C28: the interceptor sets the Authorization header to 'Token <token>'
\* exactly when a non-empty token is stored and the URL starts with /api,
\* forwards every other request unchanged, and forwards no request for an
\* external URL with the token.
C28_HeaderOnlyForApi ==
  http.sent =>
    /\ IF http.token \notin {NullStr, ""} /\ startsWith(http.request.url, ApiPrefix)
       THEN /\ http.forwarded.authorization = TokenHeader(http.token)
            /\ http.forwarded.url = http.request.url
       ELSE http.forwarded = http.request
    /\ External(http.request.url) =>
         http.forwarded.authorization # TokenHeader(http.token)

\* With a token stored, a request for an external URL ending in /api was
\* forwarded as it came.
C28_Witness ==
  /\ http.sent
  /\ http.token = "abc"
  /\ External(http.request.url)
  /\ http.forwarded = http.request

-----------------------------------------------------------------------------
(* The company form, CompanyFormComponent.                                 *)

\* form.invalid: name and industry are required, email is an e-mail address
\* or empty.
CompanyFormInvalid(f) ==
  \/ IsEmptyStr(f.name)
  \/ IsEmptyStr(f.industry)
  \/ ~EmailValid(f.email)

\* form.get('company').value
companyPayload(f) ==
  [name |-> f.name, industry |-> f.industry, website |-> f.website]

\* form.get('contact').value
companyContactData(f) ==
  [k \in {"first_name", "last_name", "email", "position", "phone"} |-> f[k]]

\* contactData.first_name && contactData.last_name
companyShouldCreateContact(c) == TruthyStr(c.first_name) /\ TruthyStr(c.last_name)

\* A contact payload that does not refer to the company just created.
contactPayloadUnlinked(c, newCompany) ==
  [k \in DOMAIN c \cup {"company_id"} |->
     IF k = "company_id" THEN NullId ELSE c[k]]

\* The projection of switchMap: { ...contactData, company_id: newCompany.id }.
contactPayload(c, newCompany) ==
  [k \in DOMAIN c \cup {"company_id"} |->
     IF k = "company_id" THEN newCompany.id ELSE c[k]]

\* The user types into a control of the company form.
SetCompanyFormField(c, v) ==
  /\ company.n < budget.ops
  /\ company.form[c] # v
  /\ company' = [company EXCEPT !.form[c] = v, !.n = @ + 1]
  /\ UNCHANGED << editor, api, app, guard, http, list >>

\* CompanyFormComponent.submit.
CompanySubmit ==
  /\ company.n < budget.ops
  /\ company' =
       IF CompanyFormInvalid(company.form)
       THEN [company EXCEPT !.touched = TRUE, !.n = @ + 1]
       ELSE [company EXCEPT
               !.n = @ + 1,
               !.subs = Append(@,
                  [valid |-> TRUE,
                   contactData |-> companyContactData(company.form),
                   calls |-> << [kind |-> "createCompany", status |-> "pending",
                                 payload |-> companyPayload(company.form),
                                 id |-> NullId] >>])]
  /\ UNCHANGED << editor, api, app, guard, http, list >>

\* A pending call of the company form succeeds.  createCompany answers with
\* the created company; with both contact names the switchMap projection
\* then issues createContact, otherwise next navigates to /applications.
\* createContact answering ends the chain with the same navigation.
CompanyRespondOk(s, c) ==
  LET sub == company.subs[s]
      call == sub.calls[c]
      newCompany == [id |-> company.nextCompanyId]
  IN /\ call.status = "pending"
     /\ company' =
          IF call.kind = "createCompany"
          THEN IF companyShouldCreateContact(sub.contactData)
               THEN [company EXCEPT
                       !.nextCompanyId = @ + 1,
                       !.subs[s].calls =
                          Append([@ EXCEPT ![c].status = "ok", ![c].id = newCompany.id],
                                 [kind |-> "createContact", status |-> "pending",
                                  payload |-> contactPayload(sub.contactData, newCompany),
                                  id |-> NullId])]
               ELSE [company EXCEPT
                       !.nextCompanyId = @ + 1,
                       !.subs[s].calls[c].status = "ok",
                       !.subs[s].calls[c].id = newCompany.id,
                       !.navigations = Append(@, "/applications")]
          ELSE [company EXCEPT
                  !.subs[s].calls[c].status = "ok",
                  !.navigations = Append(@, "/applications")]
     /\ UNCHANGED << editor, api, app, guard, http, list >>

\* A pending call of the company form fails: the error handler notifies and
\* logs, and nothing more is issued.
CompanyRespondError(s, c) ==
  /\ company.subs[s].calls[c].status = "pending"
  /\ company' = [company EXCEPT !.subs[s].calls[c].status = "error"]
  /\ UNCHANGED << editor, api, app, guard, http, list >>

\* What is typed into the company form.
CompanyFormValues(c) ==
  CASE c = "name" -> {"Dunes"}
    [] c = "industry" -> {"Sand"}
    [] c = "first_name" -> {"Grace"}
    [] c = "last_name" -> {"Hopper"}
    [] c = "email" -> {"not-an-email"}

\* The company form is filled in and submitted: three more operations than
\* in Spec.
InitCompany == InitState([ops |-> MaxOps + 3, subs |-> MaxSubmits])

NextCompany ==
  \/ \E c \in {"name", "industry", "first_name", "last_name", "email"} :
       \E v \in CompanyFormValues(c) : SetCompanyFormField(c, v)
  \/ CompanySubmit
  \/ \E s \in 1..Len(company.subs), c \in 1..2 :
       c <= Len(company.subs[s].calls) /\ CompanyRespondOk(s, c)
  \/ \E s \in 1..Len(company.subs), c \in 1..2 :
       c <= Len(company.subs[s].calls) /\ CompanyRespondError(s, c)

SpecCompany == InitCompany /\ [][NextCompany]_vars

\* The kinds of the calls of submission s of the company form, in order.
CompanyKinds(s) ==
  [i \in 1..Len(company.subs[s].calls) |-> company.subs[s].calls[i].kind]

\* C26: in the company form, a submission with both contact names issues
\* createContact only after its createCompany succeeded, with the id of the
\* company returned, and issues none when createCompany failed; a submission
\* with a contact name missing issues one createCompany and no createContact;
\* a submission of an invalid form issues no call.
C26_CompanyThenContact ==
  /\ \A s \in 1..Len(company.subs) :
       LET sub == company.subs[s]
           both == sub.contactData.first_name # "" /\ sub.contactData.last_name # ""
       IN /\ ~CompanyFormInvalid(
                [k \in DOMAIN company.form |->
                   IF k \in DOMAIN sub.contactData THEN sub.contactData[k]
                   ELSE sub.calls[1].payload[k]])
          /\ IF both
             THEN /\ CompanyKinds(s) =
                       IF sub.calls[1].status = "ok"
                       THEN << "createCompany", "createContact" >>
                       ELSE << "createCompany" >>
                  /\ Len(sub.calls) = 2 =>
                       /\ sub.calls[1].id # NullId
                       /\ sub.calls[2].payload.company_id = sub.calls[1].id
             ELSE CompanyKinds(s) = << "createCompany" >>
  /\ \A s, t \in 1..Len(company.subs) :
       (s # t /\ company.subs[s].calls[1].status = "ok"
              /\ company.subs[t].calls[1].status = "ok")
         => company.subs[s].calls[1].id # company.subs[t].calls[1].id

\* A submission with both names whose createCompany succeeded and whose
\* createContact was then issued, after an invalid form had been refused.
C26_Witness ==
  /\ company.touched
  /\ \E s \in 1..Len(company.subs) :
       /\ company.subs[s].calls[1].status = "ok"
       /\ Len(company.subs[s].calls) = 2
       /\ company.subs[s].calls[2].kind = "createContact"

-----------------------------------------------------------------------------
(* The board of applications, ApplicationList.                             *)

\* The most applications a response of getApplications holds.
MaxApps == 2

statusOrder == << "DRAFT", "APPLIED", "INTERVIEW", "OFFER", "REJECTED" >>

Columns == {statusOrder[i] : i \in 1..Len(statusOrder)}

\* Calendar dates are numbered by day; the browser's local date is Today.
Today == 10

\* new Date('YYYY-MM-DD'): a date-only string is midnight UTC of that day,
\* in hours since the epoch.
ParseDate(day) == day * 24

\* new Date() followed by setHours(0, 0, 0, 0): midnight of the local date,
\* which is tz hours before midnight UTC of the same date.
LocalMidnight(today, tz) == today * 24 - tz

\* ApplicationList.isFollowUpDue; NullId is the null follow-up.
isFollowUpDue(dateString, today, tz) ==
  IF dateString = NullId THEN FALSE
  ELSE ParseDate(dateString) <= LocalMidnight(today, tz)

\* One step of Array.prototype.sort with the comparator of loadApplications:
\* x goes behind every application created no earlier than x.
RECURSIVE InsertNewestFirst(_, _)
InsertNewestFirst(x, sorted) ==
  IF sorted = << >> THEN << x >>
  ELSE IF Head(sorted).created_at >= x.created_at
       THEN << Head(sorted) >> \o InsertNewestFirst(x, Tail(sorted))
       ELSE << x >> \o sorted

\* data.sort((a, b) => new Date(b.created_at) - new Date(a.created_at)):
\* newest first, stable.
RECURSIVE SortNewestFirst(_)
SortNewestFirst(data) ==
  IF data = << >> THEN << >>
  ELSE InsertNewestFirst(data[Len(data)], SortNewestFirst(SubSeq(data, 1, Len(data) - 1)))

\* ApplicationList.updateGroupedApplications.
updateGroupedApplications(all) ==
  [st \in Columns |-> SelectSeq(all, LAMBDA a : a.status = st)]

\* ApplicationList.calculateDueFollowUps.
calculateDueFollowUps(all, today, tz) ==
  Len(SelectSeq(all, LAMBDA a : isFollowUpDue(a.follow_up_on, today, tz)))

\* The applications a response of getApplications is made of; the id of an
\* application is its place in the response.
ListedApplications ==
  [status : ApplicationStatus, follow_up_on : {NullId, Today - 1, Today, Today + 1},
   created_at : {1, 2}]

Responses ==
  UNION {[1..n -> ListedApplications] : n \in 0..MaxApps}

WithIds(data) ==
  [i \in 1..Len(data) |->
     [id |-> i, status |-> data[i].status, follow_up_on |-> data[i].follow_up_on,
      created_at |-> data[i].created_at]]

\* ApplicationList.ngOnInit: loadApplications() asks for the applications.
ListNgOnInit ==
  /\ list.phase = "constructed"
  /\ list' = [list EXCEPT !.phase = "loading", !.isLoading = TRUE,
                          !.errorMessage = NullStr]
  /\ UNCHANGED << editor, api, app, guard, http, company >>

\* getApplications answers: next of loadApplications.
ApplicationsOk(data) ==
  /\ list.phase = "loading"
  /\ LET all == SortNewestFirst(WithIds(data))
     IN list' = [list EXCEPT
                   !.phase = "loaded",
                   !.allApplications = all,
                   !.groupedApplications = updateGroupedApplications(all),
                   !.dueFollowUpsCount = calculateDueFollowUps(all, Today, list.tz),
                   !.isLoading = FALSE]
  /\ UNCHANGED << editor, api, app, guard, http, company >>

\* getApplications fails: error of loadApplications.
ApplicationsError ==
  /\ list.phase = "loading"
  /\ list' = [list EXCEPT !.phase = "failed",
                          !.errorMessage = "Fehler beim Laden der Bewerbungen.",
                          !.isLoading = FALSE]
  /\ UNCHANGED << editor, api, app, guard, http, company >>

\* The board opened in a browser west of, at and east of Greenwich.
InitList ==
  /\ InitEditor([ops |-> MaxOps, subs |-> MaxSubmits])
  /\ api = ApiConstructed(NullStr)
  /\ app = AppConstructed
  /\ guard = GuardIdle
  /\ http = HttpIdle
  /\ company = CompanyConstructed
  /\ list \in {ListConstructed(tz) : tz \in {-5, 0, 2}}

NextList ==
  \/ ListNgOnInit
  \/ \E data \in Responses : ApplicationsOk(data)
  \/ ApplicationsError

SpecList == InitList /\ [][NextList]_vars

\* The number of times the application with this id is in a column.
Occurrences(id, st) ==
  Cardinality({k \in 1..Len(list.groupedApplications[st]) :
                 list.groupedApplications[st][k].id = id})

\* A follow-up is due when its date is today or in the past.
FollowUpDue(a) == a.follow_up_on # NullId /\ a.follow_up_on <= Today

\* The columns are those of statusOrder, each application of such a status
\* is once in the column of its status and in no other, and the others are
\* in none.
GroupedByStatus ==
  /\ DOMAIN list.groupedApplications = Columns
  /\ \A i \in 1..Len(list.allApplications) :
       LET a == list.allApplications[i]
       IN \A st \in Columns :
            Occurrences(a.id, st) = IF a.status = st THEN 1 ELSE 0

\* C27: after grouping there is a column for each of the five statuses of
\* statusOrder, every loaded application of such a status is in the column
\* of its status and in no other, the applications of another status are in
\* no column, and dueFollowUpsCount is the number of loaded applications
\* whose follow-up is due.
C27_GroupedAndCounted ==
  list.phase = "loaded" =>
    /\ GroupedByStatus
    /\ list.dueFollowUpsCount =
         Cardinality({i \in 1..Len(list.allApplications) :
                        FollowUpDue(list.allApplications[i])})

-----------------------------------------------------------------------------
(* Two fetches in flight on one editor.                                    *)

\* C31: when a second load was requested while the first was in flight and
\* both fetches have answered, the company, the notes and currentContactId
\* are those of the application requested last, in whichever order the
\* two responses arrived.
C31_LastRequestedWins ==
  (/\ Len(loads) = 2
   /\ loads[2].overlapped
   /\ \A k \in 1..2 : loads[k].status = "loaded"
   /\ subs = << >>)
    => LET b == StoreApplications[loads[2].id]
       IN /\ form.company_id = b.company.id
          /\ form.company.name = b.company.name
          /\ Len(form.notes) = Len(b.notes)
          /\ currentContactId = b.contact.id

-----------------------------------------------------------------------------
(* Submitting before the fetch has answered.                               *)

\* The fetch response of the edited application had been applied to the
\* form when submission s was made.
LoadedBeforeSubmit(s) ==
  /\ subs[s].notesTrace # << >>
  /\ subs[s].notesTrace[1].op = "load"
  /\ subs[s].notesTrace[1].index = currentApplicationId

\* C32: in edit mode every submission that issued calls was made after the
\* fetch response of the edited application had been applied to the form.
C32_NoWriteBeforeLoad ==
  \A s \in Subs :
    (subs[s].context = "update" /\ subs[s].calls # << >>) => LoadedBeforeSubmit(s)

-----------------------------------------------------------------------------
(* Submitting again after a failure.                                       *)

\* C33: a submission made when every earlier submission of the session has
\* ended, one of them having created a contact before it failed, issues no
\* create-contact call.
C33_AtMostOneContactCreated ==
  [][(/\ Len(subs') = Len(subs) + 1
      /\ \A s \in Subs : subs[s].phase = "done"
      /\ \E s \in Subs : \E r \in store.contacts : CreatedThenFailed(s, r))
       => \A i \in 1..Len(subs'[Len(subs')].calls) :
            subs'[Len(subs')].calls[i].kind # "createContact"]_vars

-----------------------------------------------------------------------------
(* What a failed submission leaves behind.                                 *)

\* The step leaves the form with its notes, the two ids and the mode as
\* they are, and the editor open.
EditorUnchanged ==
  /\ form' = form
  /\ currentContactId' = currentContactId
  /\ currentApplicationId' = currentApplicationId
  /\ isEditMode' = isEditMode
  /\ navigations' = navigations

\* C34: neither onSubmit issuing a submission nor the error handler of a
\* submission, in the create or in the update context, changes a form
\* field, the notes, currentContactId, currentApplicationId or isEditMode.
C34_FailureLeavesEditor ==
  [][/\ Len(subs') = Len(subs) + 1 => EditorUnchanged
     /\ \A s \in Subs : SaveFails(s) => EditorUnchanged]_vars

\* A submission of an edited form has failed, and the form, the contact id
\* and the mode are those it was submitted with.
C34_Witness ==
  \E s \in Subs :
    /\ subs[s].callbacks = << "error" >>
    /\ subs[s].formValue.job_title = "Engineer"
    /\ form = subs[s].formValue
    /\ currentContactId = subs[s].originalContactId
    /\ isEditMode = (subs[s].context = "update")
    /\ navigations = << >>

-----------------------------------------------------------------------------
(* The mode and the id of the edited application.                          *)

\* C35: once ngOnInit has run, isEditMode is true exactly when
\* currentApplicationId is not null; every submission in edit mode was
\* issued, and every update-application call has the id of the route, which
\* is the id of the first fetch.
C35_EditModeHasId ==
  inited =>
    /\ isEditMode <=> currentApplicationId # NullId
    /\ isEditMode <=> loads # << >>
    /\ \A s \in Subs : \A i \in CallsOf(s, {"updateApplication"}) :
         /\ subs[s].calls[i].id # NullId
         /\ subs[s].calls[i].id = loads[1].id
         /\ subs[s].calls[i].id = currentApplicationId

\* An update-application call was issued for the application of the route
\* after another application had been loaded into the same editor.
C35_Witness ==
  /\ isEditMode
  /\ Len(loads) = 2
  /\ loads[2].id # loads[1].id
  /\ \E s \in Subs : \E i \in CallsOf(s, {"updateApplication"}) :
       subs[s].calls[i].id = loads[1].id

-----------------------------------------------------------------------------
(* Notes without text.                                                     *)

\* The sessions that open an application, add notes, type and erase the
\* text of notes, and submit: one more operation than in Spec.
InitBlank == InitState([ops |-> MaxOps + 1, subs |-> MaxSubmits])

NextBlank ==
  \/ \E id \in AppIds : NgOnInit(id)
  \/ \E k \in 1..Len(loads) : LoadNext(k)
  \/ OnAddNote
  \/ \E i \in 1..3, v \in {"", "ping"} : SetNoteText(i, v)
  \/ OnSubmit
  \/ \E s \in 1..Len(subs), c \in 1..3 : RespondOk(s, c)
  \/ \E s \in 1..Len(subs), c \in 1..3 : RespondError(s, c)

SpecBlank == InitBlank /\ [][NextBlank]_vars

\* C36: every note in the payload of an update-application call has a
\* text that is not empty.
C36_NotesHaveText ==
  \A s \in Subs : \A i \in CallsOf(s, {"updateApplication"}) :
    \A n \in 1..Len(subs[s].calls[i].payload.notes) :
      subs[s].calls[i].payload.notes[n].text # ""

-----------------------------------------------------------------------------
(* The two views of the login state.                                       *)

\* C37: in every state of the Api service, from its construction over any
\* stored token on, isLoggedIn() is true exactly when the current value of
\* isLoggedIn$ is true.
C37_ViewsAgree == isLoggedIn(api.token) <=> api.loggedIn

====
